---- MODULE Spec2Model ----
(***************************************************************************)
(* Model of the Hamming(12,8) stream codec of                              *)
(* src/error_correction/hamming_error_correction.py and of the driver      *)
(* handle_args of src/stegowav.py.                                         *)
(*                                                                         *)
(* Bytes are integers 0..255, byte strings are sequences of bytes, bit     *)
(* lists are sequences over {0,1}.  Python indices are 0-based; a Python   *)
(* index j is the TLA+ index j+1.                                          *)
(***************************************************************************)
EXTENDS Integers, Sequences, FiniteSets, TLC

\* ------------------------------------------------------------------ bounds

\* longest byte string handed to the encoder
MaxLen == 2

\* longest byte string handed directly to the decoder / corrector
MaxRecvLen == 3

\* ------------------------------------------------------- program constants

\* data bits per codeword: "8 + redundant_bits", the 8-bit slices
DataBits == 8

\* the hard-coded codeword width of add_lost_bits and of the position check
CodewordBits == 12

\* the redundant_bits argument of the Hamming(12,8) configuration
redundant_bits == CodewordBits - DataBits

\* byte values the streams are drawn from
DataBytes == {0, 165}

\* byte values of arbitrary received strings
RecvBytes == {0, 2, 55, 145, 255}

AllBytes == 0..255

VARIABLES
    pc,                   \* position of the codec run
    data,                 \* bytes given to encode_hamming_error_correction
    data_as_bits,         \* local of encode / decode / the bit helpers
    hamming_code,         \* local of encode
    encoded,              \* value returned by encode
    sent,                 \* TRUE iff encoded was produced by encode
    flips,                \* per codeword, the flipped position (0: none)
    received,             \* bytes given to decode / correct_errors_hamming
    entry,                \* function the receiver called
    hamming_code_as_bits, \* local of correct_errors_hamming
    corrected_data,       \* local of correct_errors_hamming
    error_syndromes,      \* the error_syndrome list of every iteration so far
    decoded_hamming_code, \* local of decode
    result,               \* value returned to the caller
    args,                 \* argparse namespace given to handle_args
    hpc,                  \* position inside handle_args
    encryptor,            \* local of handle_args
    wav_calls             \* calls made on wav_file, in order

codec_vars == <<pc, data, data_as_bits, hamming_code, encoded, sent, flips,
                received, entry, hamming_code_as_bits, corrected_data,
                error_syndromes, decoded_hamming_code, result>>

driver_vars == <<args, hpc, encryptor, wav_calls>>

vars == <<pc, data, data_as_bits, hamming_code, encoded, sent, flips,
          received, entry, hamming_code_as_bits, corrected_data,
          error_syndromes, decoded_hamming_code, result,
          args, hpc, encryptor, wav_calls>>

\* ------------------------------------------------------------ list helpers

\* s[::-1]
Reversed(s) == [i \in 1..Len(s) |-> s[Len(s) + 1 - i]]

\* s[:n]
Take(s, n) == SubSeq(s, 1, IF n < Len(s) THEN n ELSE Len(s))

\* s[n:]
Drop(s, n) == SubSeq(s, n + 1, Len(s))

\* s[-n:]
TakeLast(s, n) == IF n < Len(s) THEN SubSeq(s, Len(s) - n + 1, Len(s)) ELSE s

\* s[:-n]
DropLast(s, n) == SubSeq(s, 1, Len(s) - n)

\* del s[j] for a 0-based j < len(s)
DeleteAt(s, j) == SubSeq(s, 1, j) \o SubSeq(s, j + 2, Len(s))

\* b''.join(list of one-byte strings)
RECURSIVE join(_)
join(byte_array) ==
    IF byte_array = <<>> THEN <<>>
    ELSE Head(byte_array) \o join(Tail(byte_array))

\* a binary_repr that lists the digits least significant first
binary_repr_lsb_first(value, width) ==
    [i \in 1..width |-> (value \div (2 ^ (i - 1))) % 2]

\* np.binary_repr(value, width) as a list of digits
binary_repr(value, width) ==
    [i \in 1..width |-> (value \div (2 ^ (width - i))) % 2]

\* ------------------------------------------------------------- bit helpers

RECURSIVE return_as_bits(_)
return_as_bits(bytes) ==
    IF bytes = <<>> THEN <<>>
    ELSE binary_repr(Head(bytes), 8) \o return_as_bits(Tail(bytes))

\* one pass of the inner "for _ in range(0, 8)": byte = (byte << 1) | bit,
\* with bit = 0 once the iterator is exhausted
RECURSIVE shift_in(_, _, _)
shift_in(byte, bits, n) ==
    IF n = 0 THEN byte
    ELSE shift_in(2 * byte + (IF bits = <<>> THEN 0 ELSE Head(bits)),
                  IF bits = <<>> THEN <<>> ELSE Tail(bits), n - 1)

\* the bytes the generator yields; it stops after the byte during which the
\* iterator ran dry
RECURSIVE get_bytes(_)
get_bytes(bits) ==
    IF Len(bits) >= 8
    THEN <<shift_in(0, bits, 8)>> \o get_bytes(Drop(bits, 8))
    ELSE <<shift_in(0, bits, 8)>>

\* a convert_bits_to_bytes that keeps the generator's extra zero byte
convert_bits_to_bytes_keep_all(code) ==
    LET yielded == get_bytes(code)
    IN  [i \in 1..Len(yielded) |-> <<yielded[i]>>]

convert_bits_to_bytes(code) ==
    LET yielded == get_bytes(code)
        byte_array == [i \in 1..Len(yielded) |-> <<yielded[i]>>]
        number_of_iterations == Len(yielded)
    IN  \* number_of_bytes + 1 == number_of_iterations, number_of_bytes = len/8
        IF Len(code) + 8 = 8 * number_of_iterations
        THEN DropLast(byte_array, 1)
        ELSE byte_array

\* an add_lost_bits that appends nothing
add_lost_bits_none(bits) == bits

RECURSIVE add_lost_bits(_)
add_lost_bits(bits) ==
    IF Len(bits) % 12 # 0 THEN add_lost_bits(Append(bits, 0)) ELSE bits

RECURSIVE bit_sum(_)
bit_sum(bits) == IF bits = <<>> THEN 0 ELSE Head(bits) + bit_sum(Tail(bits))

\* an ignore_remaining_bits that never reports an all-zero rest
ignore_remaining_bits_never(bits) == FALSE

ignore_remaining_bits(bits) == bit_sum(bits) = 0

\* ------------------------------------------------------- codeword helpers

RECURSIVE placeholder_loop(_, _, _, _, _)
placeholder_loop(bits, n, i, j, k) ==
    IF i >= n THEN <<>>
    ELSE IF 2 ^ j = i + 1
         THEN <<0>> \o placeholder_loop(bits, n, i + 1, j + 1, k)
         ELSE <<bits[k + 1]>> \o placeholder_loop(bits, n, i + 1, j, k + 1)

add_placeholder_redundant_bits(bits, number_of_data_and_redundant_bits) ==
    placeholder_loop(bits, number_of_data_and_redundant_bits, 0, 0, 0)

\* the 0-based indices j the while/for pair reads: runs of
\* position_of_next_redundant_bit indices, each followed by a skip of as many
RECURSIVE walk_indices(_, _, _, _)
walk_indices(n, p, j, i) ==
    IF j >= n THEN {}
    ELSE IF i < p THEN {j} \cup walk_indices(n, p, j + 1, i + 1)
         ELSE walk_indices(n, p, j + p, 0)

RECURSIVE sum_walk(_, _, _, _, _)
sum_walk(n, p, code, j, i) ==
    IF j >= n THEN 0
    ELSE IF i < p THEN code[j + 1] + sum_walk(n, p, code, j + 1, i + 1)
         ELSE sum_walk(n, p, code, j + p, 0)

calculate_sum_of_bit_values(n, position_of_next_redundant_bit, code) ==
    sum_walk(n, position_of_next_redundant_bit, code,
             position_of_next_redundant_bit - 1, 0)

\* hamming_code[j] raises IndexError when the walk leaves the list
sum_raises_IndexError(n, position_of_next_redundant_bit, code) ==
    \E j \in walk_indices(n, position_of_next_redundant_bit,
                          position_of_next_redundant_bit - 1, 0) :
        j >= Len(code)

RECURSIVE values_loop(_, _, _, _)
values_loop(r, n, code, number_of_iterations) ==
    IF number_of_iterations >= r THEN code
    ELSE LET p == 2 ^ number_of_iterations
             s == calculate_sum_of_bit_values(n, p, code)
         IN  values_loop(r, n,
                         IF s % 2 # 0 THEN [code EXCEPT ![p] = 1] ELSE code,
                         number_of_iterations + 1)

\* a parity loop that stops one redundant bit early
calculate_values_one_short(r, n, code) == values_loop(r - 1, n, code, 0)

calculate_values_for_redundant_bits(r, n, code) == values_loop(r, n, code, 0)

RECURSIVE remove_loop(_, _, _)
remove_loop(list, r, number_of_iterations) ==
    IF number_of_iterations >= r THEN list
    ELSE LET position == 2 ^ number_of_iterations - 1 - number_of_iterations
         IN  IF position < Len(list)
             THEN remove_loop(DeleteAt(list, position), r,
                              number_of_iterations + 1)
             ELSE list

remove_all_redundant_bits(list, r) == remove_loop(list, r, 0)

\* lines 71-83: the list of parity-check results, lowest group first
compute_error_syndrome(r, n, word) ==
    [k \in 1..r |-> calculate_sum_of_bit_values(n, 2 ^ (k - 1), word) % 2]

\* lines 86-97: 0-based index of the bit to flip
RECURSIVE syndrome_position(_, _)
syndrome_position(error_syndrome, number_of_iterations) ==
    IF number_of_iterations >= Len(error_syndrome) THEN 0
    ELSE (IF error_syndrome[number_of_iterations + 1] = 1
          THEN 2 ^ number_of_iterations ELSE 0)
         + syndrome_position(error_syndrome, number_of_iterations + 1)

\* the position without "position_of_flipped_bit -= 1"
position_not_decremented(error_syndrome) ==
    syndrome_position(error_syndrome, 0)

position_of_flipped_bit(error_syndrome) ==
    LET position == syndrome_position(error_syndrome, 0) - 1
    IN  IF position < 0 THEN 0 ELSE position

\* a flip_target whose "could not correct" test starts one position late
flip_target_from_13(error_syndrome) ==
    IF bit_sum(error_syndrome) # 0
    THEN IF position_of_flipped_bit(error_syndrome) >= 13
         THEN -1
         ELSE position_of_flipped_bit(error_syndrome)
    ELSE -1

\* lines 99-103: the 0-based index of the bit the corrector inverts, or -1
\* when it inverts none (no error, or the "could not correct" message)
flip_target(error_syndrome) ==
    IF bit_sum(error_syndrome) # 0
    THEN IF position_of_flipped_bit(error_syndrome) >= 12
         THEN -1
         ELSE position_of_flipped_bit(error_syndrome)
    ELSE -1

\* lines 104-107: the word after the correction attempt
correct_word(word, error_syndrome) ==
    LET target == flip_target(error_syndrome)
    IN  IF target < 0 THEN word
        ELSE [word EXCEPT ![target + 1] = IF @ = 0 THEN 1 ELSE 0]

\* ------------------------------------------------------------------ inputs

\* the byte strings of length n over a set of byte values
ByteStrings(values, n) == UNION {[1..k -> values] : k \in 0..n}

\* encoder inputs: short strings over DataBytes, and every single byte
DataSeqs == ByteStrings(DataBytes, MaxLen) \cup [1..1 -> AllBytes]

\* byte strings handed to the receiver that no encoder need have produced
RecvSeqs == ByteStrings(RecvBytes, MaxRecvLen)

\* value of a list of 8 bits, most significant first
PackByte(b8) ==
    b8[1] * 128 + b8[2] * 64 + b8[3] * 32 + b8[4] * 16
    + b8[5] * 8 + b8[6] * 4 + b8[7] * 2 + b8[8]

\* bit i (1-based, most significant bit of the first byte first) of a string
BitAt(bytes, i) == (bytes[((i - 1) \div 8) + 1] \div (2 ^ (7 - ((i - 1) % 8)))) % 2

\* the string with, in each codeword w, the bit at position f[w] inverted
\* (f[w] = 0: codeword w is left alone)
flip_bits(bytes, f) ==
    LET flipped(i) ==
            LET w == ((i - 1) \div CodewordBits) + 1
            IN  w \in DOMAIN f /\ f[w] = ((i - 1) % CodewordBits) + 1
        bit(i) == IF flipped(i) THEN 1 - BitAt(bytes, i) ELSE BitAt(bytes, i)
    IN  [k \in 1..Len(bytes) |->
            PackByte([j \in 1..8 |-> bit(8 * (k - 1) + j)])]

NoArgs == [encode |-> "<None>", decode |-> FALSE, encryption_type |-> 0,
           hash_type |-> 0, spectrogram |-> FALSE, output |-> "<None>",
           play |-> FALSE]

NoEncryptor == [encryption_type |-> 0, hash_type |-> 0, decryption |-> FALSE]

DriverIdle ==
    /\ args = NoArgs
    /\ hpc = "idle"
    /\ encryptor = NoEncryptor
    /\ wav_calls = <<>>

CodecIdle ==
    /\ data_as_bits = <<>>
    /\ hamming_code = <<>>
    /\ encoded = <<>>
    /\ sent = FALSE
    /\ flips = <<>>
    /\ entry = "none"
    /\ hamming_code_as_bits = <<>>
    /\ corrected_data = <<>>
    /\ error_syndromes = <<>>
    /\ decoded_hamming_code = <<>>
    /\ result = <<>>

\* a run either starts at the encoder with some data, or hands the receiver
\* an arbitrary byte string
Init ==
    /\ \/ pc = "start" /\ data \in DataSeqs /\ received = <<>>
       \/ pc = "receive" /\ data = <<>> /\ received \in RecvSeqs
    /\ CodecIdle
    /\ DriverIdle

\* -------------------------------------- encode_hamming_error_correction

EncodeCall ==
    /\ pc = "start"
    /\ hamming_code' = <<>>
    /\ data_as_bits' = return_as_bits(Reversed(data))
    /\ pc' = "encode"
    /\ UNCHANGED <<data, encoded, sent, flips, received, entry,
                   hamming_code_as_bits, corrected_data, error_syndromes,
                   decoded_hamming_code, result>>
    /\ UNCHANGED driver_vars

EncodeStep ==
    /\ pc = "encode"
    /\ Len(data_as_bits) > 0
    /\ LET number_of_data_and_redundant_bits == 8 + redundant_bits
           next_bits == TakeLast(data_as_bits, 8)
           hamming_code_with_placeholders ==
               add_placeholder_redundant_bits(next_bits,
                                              number_of_data_and_redundant_bits)
           hamming_code_calculated ==
               calculate_values_for_redundant_bits(
                   redundant_bits, number_of_data_and_redundant_bits,
                   hamming_code_with_placeholders)
       IN  /\ hamming_code' = hamming_code \o hamming_code_calculated
           /\ data_as_bits' = DropLast(data_as_bits, 8)
    /\ UNCHANGED <<pc, data, encoded, sent, flips, received, entry,
                   hamming_code_as_bits, corrected_data, error_syndromes,
                   decoded_hamming_code, result>>
    /\ UNCHANGED driver_vars

EncodeReturn ==
    /\ pc = "encode"
    /\ Len(data_as_bits) = 0
    /\ encoded' = join(convert_bits_to_bytes(hamming_code))
    /\ sent' = TRUE
    /\ pc' = "transmit"
    /\ UNCHANGED <<data, data_as_bits, hamming_code, flips, received, entry,
                   hamming_code_as_bits, corrected_data, error_syndromes,
                   decoded_hamming_code, result>>
    /\ UNCHANGED driver_vars

\* the carrier between encode and decode: at most one bit of each codeword
\* is inverted
Transmit ==
    /\ pc = "transmit"
    /\ \E f \in [1..Len(data) -> 0..CodewordBits] :
           /\ flips' = f
           /\ received' = flip_bits(encoded, f)
    /\ pc' = "receive"
    /\ UNCHANGED <<data, data_as_bits, hamming_code, encoded, sent, entry,
                   hamming_code_as_bits, corrected_data, error_syndromes,
                   decoded_hamming_code, result>>
    /\ UNCHANGED driver_vars

\* -------------------------------------- decode_hamming_error_correction

\* lines 35-41, for the byte string it is called with
decode_entry(bytes) ==
    /\ decoded_hamming_code' = <<>>
    /\ data_as_bits' = add_lost_bits(return_as_bits(bytes))
    /\ pc' = "decode"

DecodeCall ==
    /\ pc = "receive"
    /\ entry' = "decode"
    /\ decode_entry(received)
    /\ UNCHANGED <<data, hamming_code, encoded, sent, flips, received,
                   hamming_code_as_bits, corrected_data, error_syndromes,
                   result>>
    /\ UNCHANGED driver_vars

\* one iteration of the while loop, lines 43-53
DecodeStep ==
    /\ pc = "decode"
    /\ Len(data_as_bits) > 0
    /\ LET number_of_data_and_redundant_bits == 8 + redundant_bits
           next_hamming_bits ==
               Take(data_as_bits, number_of_data_and_redundant_bits)
           cleaned_hamming_bits ==
               remove_all_redundant_bits(next_hamming_bits, redundant_bits)
           remaining == Drop(data_as_bits, number_of_data_and_redundant_bits)
       IN  /\ decoded_hamming_code' = decoded_hamming_code \o cleaned_hamming_bits
           /\ data_as_bits' = remaining
           /\ pc' = IF ignore_remaining_bits(remaining)
                    THEN "decode_break" ELSE "decode"
    /\ UNCHANGED <<data, hamming_code, encoded, sent, flips, received, entry,
                   hamming_code_as_bits, corrected_data, error_syndromes,
                   result>>
    /\ UNCHANGED driver_vars

\* line 55 (and line 121 when called from correct_errors_hamming)
DecodeReturn ==
    /\ \/ pc = "decode" /\ Len(data_as_bits) = 0
       \/ pc = "decode_break"
    /\ result' = join(convert_bits_to_bytes(decoded_hamming_code))
    /\ pc' = "done"
    /\ UNCHANGED <<data, data_as_bits, hamming_code, encoded, sent, flips,
                   received, entry, hamming_code_as_bits, corrected_data,
                   error_syndromes, decoded_hamming_code>>
    /\ UNCHANGED driver_vars

\* ------------------------------------------------ correct_errors_hamming

\* lines 60-66
CorrectCall ==
    /\ pc = "receive"
    /\ entry' = "correct"
    /\ corrected_data' = <<>>
    /\ error_syndromes' = <<>>
    /\ hamming_code_as_bits' = add_lost_bits(return_as_bits(received))
    /\ pc' = "correct"
    /\ UNCHANGED <<data, data_as_bits, hamming_code, encoded, sent, flips,
                   received, decoded_hamming_code, result>>
    /\ UNCHANGED driver_vars

\* one iteration of the while loop, lines 68-114
CorrectStep ==
    /\ pc = "correct"
    /\ Len(hamming_code_as_bits) > 0
    /\ LET number_of_data_and_redundant_bits == 8 + redundant_bits
           next_hamming_bits ==
               Take(hamming_code_as_bits, number_of_data_and_redundant_bits)
           sum_raises ==
               \E k \in 0..(redundant_bits - 1) :
                   sum_raises_IndexError(number_of_data_and_redundant_bits,
                                         2 ^ k, next_hamming_bits)
           error_syndrome ==
               compute_error_syndrome(redundant_bits,
                                      number_of_data_and_redundant_bits,
                                      next_hamming_bits)
           remaining ==
               Drop(hamming_code_as_bits, number_of_data_and_redundant_bits)
           \* next_hamming_bits[position_of_flipped_bit] outside the list
           flip_raises == flip_target(error_syndrome) >= Len(next_hamming_bits)
       IN  IF sum_raises \/ flip_raises
           THEN /\ pc' = "raised"
                /\ UNCHANGED <<hamming_code_as_bits, corrected_data,
                               error_syndromes>>
           ELSE /\ corrected_data' =
                       corrected_data \o correct_word(next_hamming_bits,
                                                      error_syndrome)
                /\ error_syndromes' = Append(error_syndromes, error_syndrome)
                /\ hamming_code_as_bits' = remaining
                /\ pc' = IF ignore_remaining_bits(remaining)
                         THEN "correct_break" ELSE "correct"
    /\ UNCHANGED <<data, data_as_bits, hamming_code, encoded, sent, flips,
                   received, entry, decoded_hamming_code, result>>
    /\ UNCHANGED driver_vars

\* lines 116-119: repack the corrected bits and hand them to the decoder
CorrectReturn ==
    /\ \/ pc = "correct" /\ Len(hamming_code_as_bits) = 0
       \/ pc = "correct_break"
    /\ LET corrected_data_as_byte_string ==
               join(convert_bits_to_bytes(corrected_data))
       IN  decode_entry(corrected_data_as_byte_string)
    /\ UNCHANGED <<data, hamming_code, encoded, sent, flips, received, entry,
                   hamming_code_as_bits, corrected_data, error_syndromes,
                   result>>
    /\ UNCHANGED driver_vars

\* ----------------------------------- return_as_bits / convert_bits_to_bytes

\* the bit helpers applied back to back to a byte string
ReturnAsBitsCall ==
    /\ pc = "start"
    /\ entry' = "bits"
    /\ data_as_bits' = return_as_bits(data)
    /\ pc' = "bits"
    /\ UNCHANGED <<data, hamming_code, encoded, sent, flips, received,
                   hamming_code_as_bits, corrected_data, error_syndromes,
                   decoded_hamming_code, result>>
    /\ UNCHANGED driver_vars

ConvertBitsToBytesCall ==
    /\ pc = "bits"
    /\ result' = join(convert_bits_to_bytes(data_as_bits))
    /\ pc' = "done"
    /\ UNCHANGED <<data, data_as_bits, hamming_code, encoded, sent, flips,
                   received, entry, hamming_code_as_bits, corrected_data,
                   error_syndromes, decoded_hamming_code>>
    /\ UNCHANGED driver_vars

Next ==
    \/ EncodeCall
    \/ EncodeStep
    \/ EncodeReturn
    \/ Transmit
    \/ DecodeCall
    \/ DecodeStep
    \/ DecodeReturn
    \/ CorrectCall
    \/ CorrectStep
    \/ CorrectReturn
    \/ ReturnAsBitsCall
    \/ ConvertBitsToBytesCall

Spec == Init /\ [][Next]_vars

\* ------------------------------------------------------------ handle_args

\* values of an optional string argument; "<None>" stands for None
OptionalStrings(values) == {"<None>"} \cup values

\* Python truth of an optional string
Truthy(value) == value # "<None>" /\ value # ""

ArgsSpace ==
    [encode : OptionalStrings({"", "hi"}),
     decode : BOOLEAN,
     encryption_type : {0, 1},
     hash_type : {0},
     spectrogram : BOOLEAN,
     output : OptionalStrings({"out.wav"}),
     play : BOOLEAN]

InitArgs ==
    /\ pc = "idle"
    /\ data = <<>>
    /\ received = <<>>
    /\ CodecIdle
    /\ args \in ArgsSpace
    /\ hpc = "start"
    /\ encryptor = NoEncryptor
    /\ wav_calls = <<>>

\* lines 63-82: the type lookups, the warning, wav_file = WAVFile(args.input)
LoadWavFile ==
    /\ hpc = "start"
    /\ wav_calls' = Append(wav_calls, [op |-> "load", decryption |-> FALSE])
    /\ hpc' = "get_encryptor"
    /\ UNCHANGED <<args, encryptor>>
    /\ UNCHANGED codec_vars

\* line 84 (line 85 obtains the error correction, which keeps no state here)
GetEncryptor ==
    /\ hpc = "get_encryptor"
    /\ encryptor' = [encryption_type |-> args.encryption_type,
                     hash_type |-> args.hash_type,
                     decryption |-> args.decode]
    /\ hpc' = "encode"
    /\ UNCHANGED <<args, wav_calls>>
    /\ UNCHANGED codec_vars

\* lines 87-105
EncodeMessage ==
    /\ hpc = "encode"
    /\ wav_calls' =
           IF Truthy(args.encode)
           THEN Append(wav_calls, [op |-> "encode",
                                   decryption |-> encryptor.decryption])
           ELSE wav_calls
    /\ hpc' = "decode"
    /\ UNCHANGED <<args, encryptor>>
    /\ UNCHANGED codec_vars

\* lines 107-113
DecodeMessage ==
    /\ hpc = "decode"
    /\ wav_calls' =
           IF args.decode
           THEN Append(wav_calls, [op |-> "decode",
                                   decryption |-> encryptor.decryption])
           ELSE wav_calls
    /\ hpc' = "spectrogram"
    /\ UNCHANGED <<args, encryptor>>
    /\ UNCHANGED codec_vars

\* lines 115-128
ShowSpectrogram ==
    /\ hpc = "spectrogram"
    /\ wav_calls' =
           IF args.spectrogram
           THEN Append(wav_calls, [op |-> "spectrogram", decryption |-> FALSE])
           ELSE wav_calls
    /\ hpc' = "output"
    /\ UNCHANGED <<args, encryptor>>
    /\ UNCHANGED codec_vars

\* lines 130-132
WriteOutput ==
    /\ hpc = "output"
    /\ wav_calls' =
           IF Truthy(args.output)
           THEN Append(wav_calls, [op |-> "write", decryption |-> FALSE])
           ELSE wav_calls
    /\ hpc' = "play"
    /\ UNCHANGED <<args, encryptor>>
    /\ UNCHANGED codec_vars

\* lines 134-135
PlayFile ==
    /\ hpc = "play"
    /\ wav_calls' =
           IF args.play
           THEN Append(wav_calls, [op |-> "play", decryption |-> FALSE])
           ELSE wav_calls
    /\ hpc' = "done"
    /\ UNCHANGED <<args, encryptor>>
    /\ UNCHANGED codec_vars

NextArgs ==
    \/ LoadWavFile
    \/ GetEncryptor
    \/ EncodeMessage
    \/ DecodeMessage
    \/ ShowSpectrogram
    \/ WriteOutput
    \/ PlayFile

SpecArgs == InitArgs /\ [][NextArgs]_vars

\* ============================================================== properties

\* 1-indexed codeword positions that carry the data bits, in order
DataPositions == <<3, 5, 6, 7, 9, 10, 11, 12>>

\* bit i (1 = most significant) of a byte
ByteBit(b, i) == (b \div (2 ^ (8 - i))) % 2

\* whether the binary index of a position has bit k set
InGroup(position, k) == (position \div (2 ^ k)) % 2 = 1

\* parity (0 even, 1 odd) of the positions of a 12-bit word in group k
GroupParity(word, k) ==
    Cardinality({q \in 1..12 : InGroup(q, k) /\ word[q] = 1}) % 2

\* the syndrome of a 12-bit word: bit k is the parity check of group 2^k
SyndromeOf(word) ==
    GroupParity(word, 0) + 2 * GroupParity(word, 1)
    + 4 * GroupParity(word, 2) + 8 * GroupParity(word, 3)

\* the number a computed error_syndrome list stands for
SyndromeValue(error_syndrome) ==
    error_syndrome[1] + 2 * error_syndrome[2]
    + 4 * error_syndrome[3] + 8 * error_syndrome[4]

\* word is the even-parity Hamming(12,8) codeword of byte b
IsCodewordOf(word, b) ==
    /\ Len(word) = 12
    /\ \A i \in 1..8 : word[DataPositions[i]] = ByteBit(b, i)
    /\ \A k \in 0..3 : GroupParity(word, k) = 0

\* the byte whose bits a 12-bit word carries at the data positions
DataByteOf(word) == PackByte([i \in 1..8 |-> word[DataPositions[i]]])

\* the w-th 12-bit chunk of a bit list
WordOf(bits, w) == SubSeq(bits, 12 * (w - 1) + 1, 12 * w)

\* bit i of a byte string followed by zeros
PaddedBit(bytes, i) == IF i <= 8 * Len(bytes) THEN BitAt(bytes, i) ELSE 0

\* the bit length of a byte string rounded up to a multiple of 12
PaddedLen(bytes) == 12 * ((8 * Len(bytes) + 11) \div 12)

\* the w-th 12-bit chunk of a byte string followed by zeros
PaddedWord(bytes, w) == [i \in 1..12 |-> PaddedBit(bytes, 12 * (w - 1) + i)]

\* bits is what is left of the zero-padded bits of bytes after whole chunks
IsPaddedSuffix(bits, bytes) ==
    /\ Len(bits) % 12 = 0
    /\ Len(bits) <= PaddedLen(bytes)
    /\ \A i \in 1..Len(bits) :
           bits[i] = PaddedBit(bytes, PaddedLen(bytes) - Len(bits) + i)

\* the run decoded exactly what the encoder returned
CleanRoundTrip ==
    pc = "done" /\ entry = "decode" /\ sent /\ received = encoded

\* C1: with redundant_bits = 4, decoding the encoder's output returns the
\* input: same length, same bytes, same order.
C1_DecodeEncodeIsIdentity == CleanRoundTrip => result = data

\* C2: with at most one inverted bit per 12-bit codeword,
\* correct_errors_hamming returns the encoder's input.
C2_CorrectRecoversInput ==
    (pc = "done" /\ entry = "correct" /\ sent) => result = data

\* C3: every codeword the encoder appends carries the byte's bits, most
\* significant first, at positions 3,5,6,7,9,10,11,12 and has even parity in
\* each of the four groups; 0x00 gives twelve zeros and 0xFF gives
\* 1110 1110 1111.
C3_CodewordLayout ==
    pc \in {"encode", "transmit"} =>
        /\ Len(hamming_code) % 12 = 0
        /\ \A w \in 1..(Len(hamming_code) \div 12) :
               /\ IsCodewordOf(WordOf(hamming_code, w), data[w])
               /\ data[w] = 0 => WordOf(hamming_code, w) = [i \in 1..12 |-> 0]
               /\ data[w] = 255 =>
                      WordOf(hamming_code, w)
                          = <<1, 1, 1, 0, 1, 1, 1, 0, 1, 1, 1, 1>>

C3_Witness ==
    /\ pc = "transmit"
    /\ data = <<255>>
    /\ hamming_code = <<1, 1, 1, 0, 1, 1, 1, 0, 1, 1, 1, 1>>

\* C4: return_as_bits gives 8 bits per byte, most significant first, and
\* convert_bits_to_bytes joined gives the byte string back.
C4_BitsRoundTrip ==
    entry = "bits" =>
        /\ Len(data_as_bits) = 8 * Len(data)
        /\ \A i \in 1..Len(data_as_bits) : data_as_bits[i] = BitAt(data, i)
        /\ pc = "done" => result = data

C4_Witness ==
    /\ pc = "done"
    /\ entry = "bits"
    /\ Len(data) = 2
    /\ data[1] # 0
    /\ data[2] = 0
    /\ result = data

\* C5: the encoder returns ceil(12*N/8) bytes whose bits are the N codewords
\* in input order followed by zero bits only.
C5_EncodedLayout ==
    pc = "transmit" =>
        /\ Len(encoded) = (12 * Len(data) + 7) \div 8
        /\ \A w \in 1..Len(data) :
               IsCodewordOf([i \in 1..12 |-> BitAt(encoded, 12 * (w - 1) + i)],
                            data[w])
        /\ \A i \in (12 * Len(data) + 1)..(8 * Len(encoded)) :
               BitAt(encoded, i) = 0

C5_Witness ==
    /\ pc = "transmit"
    /\ Len(data) = 1
    /\ data[1] = 165
    /\ Len(encoded) = 2
    /\ encoded[2] % 16 = 0

\* the words of the received string whose syndrome is 13, 14 or 15
Uncorrectable(w) == SyndromeOf(PaddedWord(received, w)) > 12

\* C6: a word whose syndrome exceeds 12 is left as received, nothing is
\* raised, the loop goes on to every later word that is followed by, or is, a
\* non-zero word, and the byte returned for it is the data bits it carries.
C6_UncorrectableWordKept ==
    entry = "correct" =>
        /\ pc # "raised"
        /\ pc \in {"correct", "correct_break"} =>
               \A w \in 1..Len(error_syndromes) :
                   Uncorrectable(w) =>
                       /\ SyndromeValue(error_syndromes[w]) > 12
                       /\ WordOf(corrected_data, w) = PaddedWord(received, w)
        /\ pc = "correct_break" =>
               \A w \in 1..(PaddedLen(received) \div 12) :
                   PaddedWord(received, w) # [i \in 1..12 |-> 0] =>
                       w <= Len(error_syndromes)
        /\ pc = "done" =>
               \A w \in 1..Len(error_syndromes) :
                   Uncorrectable(w) =>
                       /\ w <= Len(result)
                       /\ result[w] = DataByteOf(PaddedWord(received, w))

C6_Witness ==
    /\ pc = "done"
    /\ entry = "correct"
    /\ Len(error_syndromes) = 2
    /\ Uncorrectable(1)
    /\ DataByteOf(PaddedWord(received, 1)) = 0
    /\ result[1] = 0

\* the states in which decode / correct_errors_hamming are inside their loop
InDecodeLoop == entry = "decode" /\ pc \in {"decode", "decode_break"}

InCorrectLoop == entry = "correct" /\ pc \in {"correct", "correct_break"}

\* nothing was raised, the bits still to be chunked are the tail of the
\* received bits zero-padded to a multiple of 12, and what is returned is a
\* byte string
ReceiverSafe ==
    /\ pc # "raised"
    /\ InDecodeLoop => IsPaddedSuffix(data_as_bits, received)
    /\ InCorrectLoop => IsPaddedSuffix(hamming_code_as_bits, received)
    /\ pc = "done" => result \in Seq(AllBytes)

\* every pass through a loop consumes bits, so neither loop can go on forever
ReceiverProgress ==
    /\ (pc = "decode" /\ pc' = "decode")
           => Len(data_as_bits') < Len(data_as_bits)
    /\ (pc = "correct" /\ pc' = "correct")
           => Len(hamming_code_as_bits') < Len(hamming_code_as_bits)
    /\ pc \in {"decode_break", "correct_break"} => pc' # pc

\* C7: decode_hamming_error_correction and correct_errors_hamming are total
\* on byte strings: they never raise, always finish with a byte string, and
\* chunk the input bits zero-padded at the tail to the next multiple of 12.
C7_DecodeIsTotal == []ReceiverSafe /\ [][ReceiverProgress]_vars

C7_Witness ==
    /\ pc = "done"
    /\ entry = "correct"
    /\ ~sent
    /\ Len(received) = 1
    /\ received[1] = 255

\* C8: whenever handle_args runs the embed step, the cipher handed to it was
\* obtained for encryption (decryption = FALSE).
C8_EmbedUsesEncryptingCipher ==
    \A i \in 1..Len(wav_calls) :
        wav_calls[i].op = "encode" => wav_calls[i].decryption = FALSE

\* the received word w with the bit at position p inverted (p = 0: as it is)
Inverted(word, p) ==
    [q \in 1..12 |-> IF q = p THEN 1 - word[q] ELSE word[q]]

\* C9: for a codeword with the single bit at position p inverted the
\* corrector computes syndrome p and inverts exactly that bit back; for an
\* intact codeword it computes 0 and changes nothing.
C9_SyndromeNamesFlippedBit ==
    (entry = "correct" /\ sent /\ pc \in {"correct", "correct_break"}) =>
        \A w \in 1..Len(error_syndromes) :
            /\ w <= Len(flips)
            /\ SyndromeValue(error_syndromes[w]) = flips[w]
            /\ WordOf(corrected_data, w)
                   = Inverted(PaddedWord(received, w), flips[w])
            /\ IsCodewordOf(WordOf(corrected_data, w), data[w])

C9_Witness ==
    /\ entry = "correct"
    /\ pc = "correct_break"
    /\ sent
    /\ data = <<255>>
    /\ flips = <<5>>
    /\ Len(error_syndromes) = 1
    /\ SyndromeValue(error_syndromes[1]) = 5

\* index of the last non-zero byte of a string, 0 when there is none
LastNonZero(bytes) ==
    LET nonzero == {i \in 1..Len(bytes) : bytes[i] # 0}
    IN  IF nonzero = {} THEN 0
        ELSE CHOOSE i \in nonzero : \A j \in nonzero : j <= i

\* number of leading bytes the round trip keeps
KeptLen(bytes) ==
    IF bytes = <<>> THEN 0
    ELSE IF LastNonZero(bytes) < 1 THEN 1 ELSE LastNonZero(bytes)

\* C10: the decode loop stops only when every remaining bit is zero, so the
\* round trip returns the input without its trailing 0x00 bytes, except that
\* the first byte is always kept; the empty input gives the empty output.
C10_RoundTripDropsZeroTail ==
    /\ pc = "decode_break" => \A i \in 1..Len(data_as_bits) : data_as_bits[i] = 0
    /\ (pc = "decode" /\ decoded_hamming_code # <<>>)
           => \E i \in 1..Len(data_as_bits) : data_as_bits[i] = 1
    /\ CleanRoundTrip => result = SubSeq(data, 1, KeptLen(data))

C10_Witness ==
    /\ CleanRoundTrip
    /\ Len(data) = 2
    /\ data[1] # 0
    /\ data[2] = 0
    /\ result = <<data[1]>>

====
